---- MODULE Spec2Model ----
(***************************************************************************)
(* State-machine model of the client-side polling and routing logic of the *)
(* legal-document frontend:                                                *)
(*   - pollProcessingStatus / activePolls  (hooks/useProcessingPoller.ts)  *)
(*   - ProcessingQueue auto-refresh (processing-queue/ProcessingQueue.tsx) *)
(*   - useProcessingStatus + DocumentReview (utils/contractUtils.ts,       *)
(*     pages/DocumentReview.tsx)                                           *)
(*   - AuthProvider + ProtectedRoute (unnamed/part_001, unnamed/part_009)  *)
(* JavaScript runs each callback to completion, so one action is one       *)
(* callback (a call, a timer firing, the continuation of an awaited HTTP   *)
(* request) together with the React render and effects it triggers.       *)
(***************************************************************************)
EXTENDS Integers, Sequences, FiniteSets, Bags, TLC

NULL == "null"

Min(a, b) == IF a < b THEN a ELSE b

(***************************************************************************)
(* Bounds of the model.                                                    *)
(***************************************************************************)
\* pollProcessingStatus calls that start a loop (SpecDedup)
MaxPolls == 3
\* callbacks run in one behaviour of SpecDedup
MaxSteps == 7
\* fetchDocuments requests of one ProcessingQueue in flight at once
MaxInFlight == 2
\* requests and timers of one DocumentReview page pending at once
MaxPending == 3
\* value pollCount is followed up to in SpecReview
MaxPollCount == 3
\* value pollCount is followed up to in SpecStuck (beyond the hook's limit)
MaxStuckPollCount == 62
\* status requests and poll timers outstanding at once in SpecStuck
MaxStuckPending == 2
\* GET /auth/me requests of the AuthProvider in flight at once
MaxMeRequests == 2

VARIABLES
  \* ---- hooks/useProcessingPoller.ts
  activePolls,   \* the module-level Set<string> registry
  polls,         \* one record per pollProcessingStatus call that started a loop
  ret,           \* what the last pollProcessingStatus call returned
  steps,         \* callbacks run so far (bounded in SpecDedup only)
  \* ---- components/processing-queue/ProcessingQueue.tsx
  qMounted,      \* the component is mounted
  qToken,        \* useAuth().token
  qProp,         \* how the parent passes onDocumentUpdate
  documents,     \* useState<QueueDocument[]>: document id -> display status
  isLoading,     \* useState<boolean>
  pollDelay,     \* useState<number>
  pollTimer,     \* the pollTimer ref: null, a pending timer, or one that fired
  qTimers,       \* auto-refresh timers pending in the event loop
  qInFlight,     \* fetchDocuments requests in flight
  qCancels,      \* cancelDocument requests in flight (by document id)
  qLast,         \* outcome of the last fetchDocuments request that settled
  \* ---- pages/DocumentReview.tsx, useProcessingStatus, useDocumentData
  rMounted,      \* the page is mounted
  backend,       \* the document's processing_status on the server
  documentData,  \* useDocumentData state: documentData?.processing_status
  loading,       \* useDocumentData state
  rInit,         \* where initializeDocument is: "document", "analysis", "done"
  processingStatus, \* useProcessingStatus state: processing_status or null
  pollCount,     \* useProcessingStatus state
  timeoutRef,    \* timeoutRef.current: null, a pending timer, a stale id
  rRefPoll,      \* pollCount captured by the closure of the timer timeoutRef names
  rOrphans,      \* pending timers timeoutRef no longer names (bag of closures)
  rRequests,     \* status requests in flight (bag of [kind, pc])
  rAnalysisRefetch, \* onComplete runs awaiting refetchAnalysis()
  rDocRefetch,   \* onComplete runs awaiting refetchDocument()
  onCompleteRan, \* onComplete has been called
  \* ---- auth/AuthContext (unnamed/part_001), ProtectedRoute (unnamed/part_009)
  aToken,        \* AuthProvider state: token
  aUser,         \* AuthProvider state: user
  aLoading,      \* AuthProvider state: loading
  aError,        \* AuthProvider state: error
  aEffectsRun,   \* the provider's mount effects have run
  aMePending,    \* GET /auth/me requests in flight
  aOp,           \* login / signup / password request in flight, or "none"
  aRefreshTimer, \* the auto-refresh timer is pending
  aRefreshPending, \* POST /auth/refresh in flight
  aRoute,        \* props of the ProtectedRoute element the URL matches
  aView          \* what that ProtectedRoute rendered

pollVars == <<activePolls, polls, ret, steps>>
queueVars == <<qMounted, qToken, qProp, documents, isLoading, pollDelay,
               pollTimer, qTimers, qInFlight, qCancels, qLast>>
reviewVars == <<rMounted, backend, documentData, loading, rInit,
                processingStatus, pollCount, timeoutRef, rRefPoll, rOrphans,
                rRequests, rAnalysisRefetch, rDocRefetch, onCompleteRan>>
authVars == <<aToken, aUser, aLoading, aError, aEffectsRun, aMePending, aOp,
              aRefreshTimer, aRefreshPending, aRoute, aView>>

(***************************************************************************)
(* hooks/useProcessingPoller.ts                                            *)
(***************************************************************************)
DocumentIds == {"d1", "d2"}
TaskIds == {"t1"}

\* `${documentId}-${taskId}`: document ids are hex ObjectIds (no "-"), so the
\* string is in one-to-one correspondence with the pair.
PollKey(documentId, taskId) == <<documentId, taskId>>

PollIds == 1..MaxPolls

maxAttempts == 60
maxDelay == 30000
InitialDelay == 5000
ErrorRetryLimit == 3

\* What a status request can come back with: res.data.data.processing_status
\* ("pending" and "processing" take the same path), HTTP 429, any other error.
Responses == {"completed", "failed", "processing", "http429", "error"}

\* Doubling without the Math.min.
Backoff429NoCap(d) == d * 2

\* Math.min(currentDelay * 2, maxDelay)
Backoff429(d) == Min(d * 2, maxDelay)

\* Math.min(currentDelay * 1.5, maxDelay); every delay this is applied to is
\* even (see DelayExact), so the integer division is exact.
BackoffError(d) == Min((d * 3) \div 2, maxDelay)

\* attempts++ < maxAttempts (the increment is applied by the caller)
MayContinue(attempts) == attempts < maxAttempts

\* attempts++ < 3
MayRetryError(attempts) == attempts < ErrorRetryLimit

\* No key: the slot of a call that has not happened.
NoKey == <<>>

NoPoll ==
  [key |-> NoKey, phase |-> "unused", attempts |-> 0, currentDelay |-> 0,
   timerDelay |-> 0, navTimer |-> FALSE, navigated |-> FALSE,
   cancelled |-> FALSE, requests |-> 0, otherErrors |-> 0,
   lastResp |-> "none", uploadResult |-> "none", late |-> {}]

\* The closure state right after pollProcessingStatus has run to its return:
\* attempts = 0, currentDelay = 5000, timeoutId unset, checkStatus() called
\* once (its request is in flight).  handleUpload set the upload result to
\* "processing" just before the call.
NewPoll(k) ==
  [NoPoll EXCEPT !.key = k, !.phase = "inflight", !.currentDelay = InitialDelay,
                 !.requests = 1, !.uploadResult = "processing"]

\* Effects observed after the returned cleanup was called from outside.
Late(p, effects) == IF p.cancelled THEN p.late \cup effects ELSE p.late

\* The continuation of checkStatus after the awaited axios.get: the poll's next
\* closure state, and whether cleanup() ran (done).
OnResponse(p, r) ==
  CASE r = "completed" ->
         [poll |-> [p EXCEPT !.phase = "stopped", !.lastResp = r,
                             !.uploadResult = "success", !.navTimer = TRUE,
                             !.late = Late(p, {"setProcessingStatus", "setUploadResult"})],
          done |-> TRUE]
    [] r = "failed" ->
         [poll |-> [p EXCEPT !.phase = "stopped", !.lastResp = r,
                             !.uploadResult = "error_failed",
                             !.late = Late(p, {"setProcessingStatus", "setUploadResult"})],
          done |-> TRUE]
    [] r = "processing" ->
         IF MayContinue(p.attempts)
         THEN [poll |-> [p EXCEPT !.phase = "timer", !.lastResp = r,
                                  !.attempts = @ + 1,
                                  !.currentDelay = InitialDelay,
                                  !.timerDelay = InitialDelay,
                                  !.late = Late(p, {"setProcessingStatus"})],
               done |-> FALSE]
         ELSE [poll |-> [p EXCEPT !.phase = "stopped", !.lastResp = r,
                                  !.attempts = @ + 1,
                                  !.uploadResult = "error_timeout",
                                  !.late = Late(p, {"setProcessingStatus", "setUploadResult"})],
               done |-> TRUE]
    [] r = "http429" ->
         IF MayContinue(p.attempts)
         THEN [poll |-> [p EXCEPT !.phase = "timer", !.lastResp = r,
                                  !.attempts = @ + 1,
                                  !.currentDelay = Backoff429(p.currentDelay),
                                  !.timerDelay = Backoff429(p.currentDelay)],
               done |-> FALSE]
         ELSE [poll |-> [p EXCEPT !.phase = "stopped", !.lastResp = r,
                                  !.attempts = @ + 1,
                                  !.currentDelay = Backoff429(p.currentDelay)],
               done |-> TRUE]
    [] r = "error" ->
         IF MayRetryError(p.attempts)
         THEN [poll |-> [p EXCEPT !.phase = "timer", !.lastResp = r,
                                  !.attempts = @ + 1,
                                  !.otherErrors = @ + 1,
                                  !.currentDelay = BackoffError(p.currentDelay),
                                  !.timerDelay = BackoffError(p.currentDelay)],
               done |-> FALSE]
         ELSE [poll |-> [p EXCEPT !.phase = "stopped", !.lastResp = r,
                                  !.attempts = @ + 1,
                                  !.otherErrors = @ + 1,
                                  !.uploadResult = "error_unable",
                                  !.late = Late(p, {"setUploadResult"})],
               done |-> TRUE]

\* pollProcessingStatus(documentId, taskId, ...): returns undefined when the key
\* is registered, else registers it, starts checkStatus and returns cleanup.
PollProcessingStatus(documentId, taskId) ==
  LET k == PollKey(documentId, taskId)
      started == {i \in PollIds : polls[i].phase # "unused"}
      i == Cardinality(started) + 1
  IN IF k \in activePolls
     THEN /\ ret' = "undefined"
          /\ UNCHANGED <<activePolls, polls>>
     ELSE /\ i \in PollIds
          /\ activePolls' = activePolls \cup {k}
          /\ polls' = [polls EXCEPT ![i] = NewPoll(k)]
          /\ ret' = "cleanup"

\* The awaited status request of poll i settles with r.
CheckStatusResponse(i, r) ==
  /\ polls[i].phase = "inflight"
  /\ LET o == OnResponse(polls[i], r)
     IN /\ polls' = [polls EXCEPT ![i] = o.poll]
        /\ activePolls' = IF o.done THEN activePolls \ {polls[i].key} ELSE activePolls
  /\ UNCHANGED ret

\* setTimeout(checkStatus, currentDelay) fires: checkStatus issues a request.
CheckStatusTimer(i) ==
  /\ polls[i].phase = "timer"
  /\ polls' = [polls EXCEPT ![i].phase = "inflight",
                            ![i].requests = @ + 1,
                            ![i].late = Late(polls[i], {"request"})]
  /\ UNCHANGED <<activePolls, ret>>

\* The cleanup function returned by the call is called from outside (a direct
\* caller, or the effect cleanup of useProcessingStatusPoll): it unregisters
\* the key and clears the timer timeoutId names, if that one is pending.
Cleanup(i) ==
  /\ polls[i].phase # "unused"
  /\ activePolls' = activePolls \ {polls[i].key}
  /\ polls' = [polls EXCEPT ![i].cancelled = TRUE,
                            ![i].phase = IF @ = "timer" THEN "stopped" ELSE @]
  /\ UNCHANGED ret

\* setTimeout(() => navigate(...), 1500) of the completed branch fires.
NavigateTimer(i) ==
  /\ polls[i].navTimer
  /\ polls' = [polls EXCEPT ![i].navTimer = FALSE,
                            ![i].navigated = TRUE,
                            ![i].late = Late(polls[i], {"navigate"})]
  /\ UNCHANGED <<activePolls, ret>>

InitRegistry ==
  /\ activePolls = {}
  /\ polls = [i \in PollIds |-> NoPoll]
  /\ ret = "none"
  /\ steps = 0

\* One call, as handleUpload makes it: pollProcessingStatus("d1", "t1", ...).
InitOnePoll ==
  /\ activePolls = {PollKey("d1", "t1")}
  /\ polls = [i \in PollIds |-> IF i = 1 THEN NewPoll(PollKey("d1", "t1")) ELSE NoPoll]
  /\ ret = "cleanup"
  /\ steps = 0

(***************************************************************************)
(* components/processing-queue/ProcessingQueue.tsx, utils/queueUtils.ts    *)
(***************************************************************************)
QueueDocIds == {"a", "b"}
Tokens == {"tok1", "tok2"}
DocumentStatus == {"Uploaded", "Processing", "Completed", "Failed"}

\* Statuses the documents API may send; NULL is a document without any of the
\* status, processing_status, state fields.
ApiStatuses == {"pending", "PROCESSING", "completed", "cancelled", NULL}

\* apiStatus?.toLowerCase(), on the strings above
ToLowerCase(x) == IF x = "PROCESSING" THEN "processing" ELSE x

\* mapApiStatusToDisplayStatus
mapApiStatusToDisplayStatus(apiStatus) ==
  LET status == ToLowerCase(apiStatus)
  IN CASE status \in {"uploaded", "pending"} -> "Uploaded"
       [] status \in {"processing", "in_progress", "analyzing"} -> "Processing"
       [] status \in {"completed", "done", "success", "ready"} -> "Completed"
       [] status \in {"failed", "error", "cancelled", "canceled"} -> "Failed"
       [] OTHER -> "Uploaded"

\* What GET /documents/ can answer: any set of documents, each with a status.
ApiDocLists ==
  UNION {[ids -> ApiStatuses] : ids \in SUBSET QueueDocIds}

\* fetchDocuments: docs.map(doc => ({id, status: mapApiStatusToDisplayStatus(...)}))
FormattedDocs(api) ==
  [id \in DOMAIN api |-> mapApiStatusToDisplayStatus(api[id])]

\* documents.some(doc => doc.status === "Processing" || doc.status === "Uploaded")
hasActiveDocs(docs) ==
  \E id \in DOMAIN docs : docs[id] = "Processing" \/ docs[id] = "Uploaded"

QueueInitialDelay == 10000
QueueMaxDelay == 300000

\* Doubling without the Math.min.
QueueBackoffNoCap(prev) == prev * 2

\* setPollDelay((prev) => Math.min(prev * 2, 300000))
QueueBackoff(prev) == Min(prev * 2, QueueMaxDelay)

\* A clearPollTimer that leaves the pending timer alone.
TimersNotCleared(ref, n) == n

\* clearPollTimer: clearTimeout(pollTimer.current) removes the timer if it is
\* still pending; the ref becomes null.
\* Given the ref and the number of pending timers: the number left.
TimersAfterClear(ref, n) == IF ref = "pending" THEN n - 1 ELSE n

\* The "Adaptive polling" effect, run for a render with documents docs when
\* the ref is ref and n timers are pending: clearPollTimer(), then a new timer
\* when some document is active.
PollingEffect(ref, n, docs) ==
  IF hasActiveDocs(docs)
  THEN /\ qTimers' = TimersAfterClear(ref, n) + 1
       /\ pollTimer' = "pending"
  ELSE /\ qTimers' = TimersAfterClear(ref, n)
       /\ pollTimer' = NULL

\* handleFetchDocuments up to its await: nothing without a token, else
\* setIsLoading(true) and a request.
StartFetch(token) ==
  IF token = NULL
  THEN UNCHANGED <<isLoading, qInFlight>>
  ELSE /\ qInFlight < MaxInFlight
       /\ isLoading' = TRUE
       /\ qInFlight' = qInFlight + 1

\* The continuation of handleFetchDocuments after fetchDocuments settled.  A
\* new documents array, or a changed pollDelay, re-runs the polling effect;
\* setIsLoading alone re-renders without touching the effect's dependencies.
\* State updates of an unmounted component are dropped.
FetchSucceeds(api) ==
  /\ qInFlight > 0
  /\ qInFlight' = qInFlight - 1
  /\ qLast' = "success"
  /\ IF qMounted
     THEN /\ documents' = FormattedDocs(api)
          /\ pollDelay' = QueueInitialDelay
          /\ isLoading' = FALSE
          /\ PollingEffect(pollTimer, qTimers, FormattedDocs(api))
     ELSE UNCHANGED <<documents, pollDelay, isLoading, pollTimer, qTimers>>
  /\ UNCHANGED <<qMounted, qToken, qProp, qCancels>>

FetchRateLimited ==
  /\ qInFlight > 0
  /\ qInFlight' = qInFlight - 1
  /\ qLast' = "http429"
  /\ IF qMounted
     THEN /\ pollDelay' = QueueBackoff(pollDelay)
          /\ isLoading' = FALSE
          /\ IF QueueBackoff(pollDelay) # pollDelay
             THEN PollingEffect(pollTimer, qTimers, documents)
             ELSE UNCHANGED <<pollTimer, qTimers>>
     ELSE UNCHANGED <<pollDelay, isLoading, pollTimer, qTimers>>
  /\ UNCHANGED <<qMounted, qToken, qProp, documents, qCancels>>

FetchFails ==
  /\ qInFlight > 0
  /\ qInFlight' = qInFlight - 1
  /\ qLast' = "error"
  /\ isLoading' = IF qMounted THEN FALSE ELSE isLoading
  /\ UNCHANGED <<qMounted, qToken, qProp, documents, pollDelay, pollTimer,
                 qTimers, qCancels>>

\* The timer of the polling effect fires: handleFetchDocuments(), then
\* onDocumentUpdate?.().  A parent that passes an inline function (HomePage)
\* re-renders on that call and hands down a new function, which re-runs the
\* polling effect; an absent or stable prop re-runs nothing.
PollTimerFires ==
  /\ qTimers > 0
  /\ pollTimer = "pending"
  /\ StartFetch(qToken)
  /\ IF qProp = "inline"
     THEN PollingEffect("fired", qTimers - 1, documents)
     ELSE /\ qTimers' = qTimers - 1
          /\ pollTimer' = "fired"
  /\ UNCHANGED <<qMounted, qToken, qProp, documents, pollDelay, qCancels, qLast>>

\* The Refresh button of QueueHeader (disabled while isLoading).  Without a
\* token handleFetchDocuments returns at once and nothing changes.
Refresh ==
  /\ qMounted
  /\ ~isLoading
  /\ qToken # NULL
  /\ StartFetch(qToken)
  /\ UNCHANGED <<qMounted, qToken, qProp, documents, pollDelay, pollTimer,
                 qTimers, qCancels, qLast>>

\* handleCancelDocument up to its await.
CancelStart(id) ==
  /\ qMounted
  /\ id \in DOMAIN documents
  /\ id \notin qCancels
  /\ qCancels' = qCancels \cup {id}
  /\ UNCHANGED <<qMounted, qToken, qProp, documents, isLoading, pollDelay,
                 pollTimer, qTimers, qInFlight, qLast>>

\* cancelDocument resolved: setDocuments(prev => prev.filter(...)) makes a new
\* array, so the polling effect re-runs; then onDocumentUpdate?.().
CancelSucceeds(id) ==
  /\ id \in qCancels
  /\ qCancels' = qCancels \ {id}
  /\ IF qMounted
     THEN LET kept == [d \in DOMAIN documents \ {id} |-> documents[d]]
          IN /\ documents' = kept
             /\ PollingEffect(pollTimer, qTimers, kept)
     ELSE UNCHANGED <<documents, pollTimer, qTimers>>
  /\ UNCHANGED <<qMounted, qToken, qProp, isLoading, pollDelay, qInFlight, qLast>>

\* cancelDocument threw: the catch block does nothing.
CancelFails(id) ==
  /\ id \in qCancels
  /\ qCancels' = qCancels \ {id}
  /\ UNCHANGED <<qMounted, qToken, qProp, documents, isLoading, pollDelay,
                 pollTimer, qTimers, qInFlight, qLast>>

\* useAuth().token changes (login, refresh, logout): the cleanup of the
\* "Initial fetch" effect clears the timer, the effect fetches again.  The
\* polling effect does not depend on the token and does not re-run.
TokenChanges(token) ==
  /\ qMounted
  /\ token # qToken
  /\ qToken' = token
  /\ qTimers' = TimersAfterClear(pollTimer, qTimers)
  /\ pollTimer' = NULL
  /\ StartFetch(token)
  /\ UNCHANGED <<qMounted, qProp, documents, pollDelay, qCancels, qLast>>

\* The parent re-renders for a reason of its own and passes a new inline
\* onDocumentUpdate: the polling effect re-runs.
ParentRerenders ==
  /\ qMounted
  /\ qProp = "inline"
  /\ PollingEffect(pollTimer, qTimers, documents)
  /\ UNCHANGED <<qMounted, qToken, qProp, documents, isLoading, pollDelay,
                 qInFlight, qCancels, qLast>>

\* Unmount: the cleanup of the "Initial fetch" effect runs clearPollTimer.
Unmount ==
  /\ qMounted
  /\ qMounted' = FALSE
  /\ qTimers' = TimersAfterClear(pollTimer, qTimers)
  /\ pollTimer' = NULL
  /\ UNCHANGED <<qToken, qProp, documents, isLoading, pollDelay, qInFlight,
                 qCancels, qLast>>

\* The component after its first render and effects: the "Initial fetch"
\* effect has called handleFetchDocuments, the polling effect found no
\* document.
InitQueue ==
  /\ qMounted = TRUE
  /\ qToken \in Tokens \cup {NULL}
  /\ qProp \in {"absent", "stable", "inline"}
  /\ documents = << >>
  /\ isLoading = (qToken # NULL)
  /\ pollDelay = QueueInitialDelay
  /\ pollTimer = NULL
  /\ qTimers = 0
  /\ qInFlight = (IF qToken # NULL THEN 1 ELSE 0)
  /\ qCancels = {}
  /\ qLast = "none"

\* No ProcessingQueue on the page.
IdleQueue ==
  /\ qMounted = FALSE
  /\ qToken = NULL
  /\ qProp = "absent"
  /\ documents = << >>
  /\ isLoading = FALSE
  /\ pollDelay = QueueInitialDelay
  /\ pollTimer = NULL
  /\ qTimers = 0
  /\ qInFlight = 0
  /\ qCancels = {}
  /\ qLast = "none"

(***************************************************************************)
(* pages/DocumentReview.tsx, useProcessingStatus (utils/contractUtils.ts), *)
(* useDocumentData (hooks/useDocumetnData.ts)                              *)
(*                                                                         *)
(* DocumentReview passes an inline onComplete, so useProcessingStatus'     *)
(* pollProcessingStatus (useCallback over onComplete) is a new function on *)
(* every render, and the page's effect over [isProcessing, startPolling]   *)
(* runs after every render: while isProcessing it calls that render's      *)
(* startPolling().  Updates made in one callback are batched into one      *)
(* render (React 18 createRoot); updates of an unmounted page are dropped. *)
(***************************************************************************)
ProcessingStates == {"pending", "processing", "completed", "failed"}

PollLimit == 60

\* documentData?.processing_status === "processing" || ... === "pending"
isProcessing(doc) == doc = "processing" \/ doc = "pending"

One(x) == SetToBag({x})

PollRequest(pc) == [kind |-> "poll", pc |-> pc]
\* fetchProcessingStatus() called directly by the hook's effect
FetchRequest == [kind |-> "fetch", pc |-> 0]

\* A guard that never stops.
PollGuardLoose(pc) == TRUE

\* if (!documentId || pollCount > 60) return, for the closure that captured pc
PollGuard(pc) == ~(pc > PollLimit)

\* pollProcessingStatus up to its await, run by the closure that captured pc:
\* the status requests in flight afterwards.
StartPolling(reqs, pc) ==
  IF PollGuard(pc) THEN reqs (+) One(PollRequest(pc)) ELSE reqs

\* DocumentReview's effect after a render with documentData doc and pollCount
\* pc: if (isProcessing) startPolling().
ReviewEffect(reqs, doc, pc) ==
  IF isProcessing(doc) THEN StartPolling(reqs, pc) ELSE reqs

RefTimerPending == IF timeoutRef = "pending" THEN 1 ELSE 0

PendingWork ==
  BagCardinality(rRequests) + BagCardinality(rOrphans) + RefTimerPending
    + rAnalysisRefetch + rDocRefetch

\* The Celery pipeline moves the document on.
BackendAdvances ==
  /\ \/ backend = "pending" /\ backend' = "processing"
     \/ backend = "processing" /\ backend' \in {"completed", "failed"}
  /\ UNCHANGED <<rMounted, documentData, loading, rInit, processingStatus,
                 pollCount, timeoutRef, rRefPoll, rOrphans, rRequests,
                 rAnalysisRefetch, rDocRefetch, onCompleteRan>>

\* initializeDocument: fetchDocument() resolved.  setDocumentData, then either
\* the analysis is fetched (completed) or setLoading(false).
InitDocumentLoaded ==
  /\ rInit = "document"
  /\ rInit' = IF backend = "completed" THEN "analysis" ELSE "done"
  /\ IF rMounted
     THEN /\ documentData' = backend
          /\ loading' = (backend = "completed")
          /\ rRequests' = ReviewEffect(rRequests, backend, pollCount)
     ELSE UNCHANGED <<documentData, loading, rRequests>>
  /\ UNCHANGED <<rMounted, backend, processingStatus, pollCount, timeoutRef,
                 rRefPoll, rOrphans, rAnalysisRefetch, rDocRefetch, onCompleteRan>>

\* initializeDocument: fetchDocument() threw: setError, setLoading(false).
InitDocumentFails ==
  /\ rInit = "document"
  /\ rInit' = "done"
  /\ loading' = IF rMounted THEN FALSE ELSE loading
  /\ rRequests' = IF rMounted THEN ReviewEffect(rRequests, documentData, pollCount)
                  ELSE rRequests
  /\ UNCHANGED <<rMounted, backend, documentData, processingStatus, pollCount,
                 timeoutRef, rRefPoll, rOrphans, rAnalysisRefetch, rDocRefetch,
                 onCompleteRan>>

\* initializeDocument: fetchDocumentAnalysis() settled (it swallows errors):
\* setLoading(false).
InitAnalysisSettles ==
  /\ rInit = "analysis"
  /\ rInit' = "done"
  /\ loading' = IF rMounted THEN FALSE ELSE loading
  /\ rRequests' = IF rMounted THEN ReviewEffect(rRequests, documentData, pollCount)
                  ELSE rRequests
  /\ UNCHANGED <<rMounted, backend, documentData, processingStatus, pollCount,
                 timeoutRef, rRefPoll, rOrphans, rAnalysisRefetch, rDocRefetch,
                 onCompleteRan>>

\* A status request threw: fetchProcessingStatus logs and returns null, and
\* pollProcessingStatus returns on "if (!status) return".  No state changes,
\* nothing is scheduled.
StatusRequestFails(req) ==
  /\ BagIn(req, rRequests)
  /\ rRequests' = rRequests (-) One(req)
  /\ UNCHANGED <<rMounted, backend, documentData, loading, rInit,
                 processingStatus, pollCount, timeoutRef, rRefPoll, rOrphans,
                 rAnalysisRefetch, rDocRefetch, onCompleteRan>>

\* The fetchProcessingStatus() of the hook's mount effect resolved:
\* setProcessingStatus only.
StatusFetched(req) ==
  /\ BagIn(req, rRequests)
  /\ req.kind = "fetch"
  /\ IF rMounted
     THEN /\ processingStatus' = backend
          /\ rRequests' = ReviewEffect(rRequests (-) One(req), documentData, pollCount)
     ELSE /\ rRequests' = rRequests (-) One(req)
          /\ UNCHANGED processingStatus
  /\ UNCHANGED <<rMounted, backend, documentData, loading, rInit, pollCount,
                 timeoutRef, rRefPoll, rOrphans, rAnalysisRefetch, rDocRefetch,
                 onCompleteRan>>

\* The status request of a pollProcessingStatus run resolved with the server's
\* status: setProcessingStatus, then
\*   completed           -> onComplete?.()  (refetchAnalysis is awaited first)
\*   processing, pending -> setPollCount(prev + 1) and
\*                          timeoutRef.current = setTimeout(<this closure>, 5000)
\*   failed              -> nothing
\* and, while mounted, the render and the page's effect.
StatusPolled(req) ==
  /\ BagIn(req, rRequests)
  /\ req.kind = "poll"
  /\ LET rest == rRequests (-) One(req)
         still == isProcessing(backend)
         newCount == IF still /\ rMounted THEN pollCount + 1 ELSE pollCount
     IN /\ pollCount' = newCount
        /\ processingStatus' = IF rMounted THEN backend ELSE processingStatus
        /\ IF backend = "completed"
           THEN /\ rAnalysisRefetch' = rAnalysisRefetch + 1
                /\ onCompleteRan' = TRUE
           ELSE UNCHANGED <<rAnalysisRefetch, onCompleteRan>>
        /\ IF still
           THEN /\ timeoutRef' = "pending"
                /\ rRefPoll' = req.pc
                /\ rOrphans' = IF timeoutRef = "pending"
                               THEN rOrphans (+) One(rRefPoll)
                               ELSE rOrphans
           ELSE UNCHANGED <<timeoutRef, rRefPoll, rOrphans>>
        /\ rRequests' = IF rMounted THEN ReviewEffect(rest, documentData, newCount)
                        ELSE rest
  /\ UNCHANGED <<rMounted, backend, documentData, loading, rInit, rDocRefetch>>

\* The timer timeoutRef names fires: its closure runs pollProcessingStatus.
RefTimerFires ==
  /\ timeoutRef = "pending"
  /\ timeoutRef' = "stale"
  /\ rRequests' = StartPolling(rRequests, rRefPoll)
  /\ UNCHANGED <<rMounted, backend, documentData, loading, rInit,
                 processingStatus, pollCount, rRefPoll, rOrphans,
                 rAnalysisRefetch, rDocRefetch, onCompleteRan>>

\* A timer that timeoutRef no longer names fires.
OrphanTimerFires(pc) ==
  /\ BagIn(pc, rOrphans)
  /\ rOrphans' = rOrphans (-) One(pc)
  /\ rRequests' = StartPolling(rRequests, pc)
  /\ UNCHANGED <<rMounted, backend, documentData, loading, rInit,
                 processingStatus, pollCount, timeoutRef, rRefPoll,
                 rAnalysisRefetch, rDocRefetch, onCompleteRan>>

\* onComplete: refetchAnalysis() settled (setAnalysisData on success, errors
\* swallowed), refetchDocument() is awaited next.
AnalysisRefetched(ok) ==
  /\ rAnalysisRefetch > 0
  /\ rAnalysisRefetch' = rAnalysisRefetch - 1
  /\ rDocRefetch' = rDocRefetch + 1
  /\ rRequests' = IF ok /\ rMounted
                  THEN ReviewEffect(rRequests, documentData, pollCount)
                  ELSE rRequests
  /\ UNCHANGED <<rMounted, backend, documentData, loading, rInit,
                 processingStatus, pollCount, timeoutRef, rRefPoll, rOrphans,
                 onCompleteRan>>

\* onComplete: refetchDocument() resolved: setDocumentData.
DocumentRefetched ==
  /\ rDocRefetch > 0
  /\ rDocRefetch' = rDocRefetch - 1
  /\ IF rMounted
     THEN /\ documentData' = backend
          /\ rRequests' = ReviewEffect(rRequests, backend, pollCount)
     ELSE UNCHANGED <<documentData, rRequests>>
  /\ UNCHANGED <<rMounted, backend, loading, rInit, processingStatus,
                 pollCount, timeoutRef, rRefPoll, rOrphans, rAnalysisRefetch,
                 onCompleteRan>>

\* onComplete: refetchDocument() threw; the rejection is unhandled.
DocumentRefetchFails ==
  /\ rDocRefetch > 0
  /\ rDocRefetch' = rDocRefetch - 1
  /\ UNCHANGED <<rMounted, backend, documentData, loading, rInit,
                 processingStatus, pollCount, timeoutRef, rRefPoll, rOrphans,
                 rRequests, rAnalysisRefetch, onCompleteRan>>

\* Unmount: the hook's effect cleanup clears the timer timeoutRef names (the
\* ref keeps the id).
ReviewUnmounts ==
  /\ rMounted
  /\ rMounted' = FALSE
  /\ timeoutRef' = IF timeoutRef = "pending" THEN "stale" ELSE timeoutRef
  /\ UNCHANGED <<backend, documentData, loading, rInit, processingStatus,
                 pollCount, rRefPoll, rOrphans, rRequests, rAnalysisRefetch,
                 rDocRefetch, onCompleteRan>>

\* The page after its first render and effects: initializeDocument awaits the
\* document, the hook's effect has called fetchProcessingStatus(), the page's
\* effect found isProcessing false (no documentData yet).
InitReview ==
  /\ rMounted = TRUE
  /\ backend \in ProcessingStates
  /\ documentData = NULL
  /\ loading = TRUE
  /\ rInit = "document"
  /\ processingStatus = NULL
  /\ pollCount = 0
  /\ timeoutRef = NULL
  /\ rRefPoll = 0
  /\ rOrphans = EmptyBag
  /\ rRequests = One(FetchRequest)
  /\ rAnalysisRefetch = 0
  /\ rDocRefetch = 0
  /\ onCompleteRan = FALSE

\* No DocumentReview page open.
IdleReview ==
  /\ rMounted = FALSE
  /\ backend = "completed"
  /\ documentData = NULL
  /\ loading = FALSE
  /\ rInit = "done"
  /\ processingStatus = NULL
  /\ pollCount = 0
  /\ timeoutRef = NULL
  /\ rRefPoll = 0
  /\ rOrphans = EmptyBag
  /\ rRequests = EmptyBag
  /\ rAnalysisRefetch = 0
  /\ rDocRefetch = 0
  /\ onCompleteRan = FALSE

(***************************************************************************)
(* auth/AuthContext.tsx (unnamed/part_001), routes/ProtectedRoutes.tsx     *)
(* (unnamed/part_009), App routes (usage-statistics/ErrorMessage.tsx)      *)
(***************************************************************************)
\* A value that may be null or undefined is a sequence of at most one element.
Absent == << >>
Some(x) == <<x>>
Value(opt) == opt[1]

RoleNames == {"manager", "admin", "user"}
PermissionNames == {"document.delete"}

\* What /auth/me or /auth/login may send as the user: roles and permission
\* are optional arrays.
UserShapes ==
  [roles : {Some(r) : r \in SUBSET RoleNames} \cup {Absent},
   permission : {Some(p) : p \in SUBSET PermissionNames} \cup {Absent}]

\* Tokens: two the server issues, and one that parseJwt rejects or that has
\* expired (it can only come from localStorage).
ValidTokens == {"jwt1", "jwt2"}
BadToken == "bad"

\* The ProtectedRoute elements of App, and one with both lists set.
RouteProps ==
  { [requiredRoles |-> << >>, requiredPermissions |-> << >>],
    [requiredRoles |-> <<"manager", "admin">>, requiredPermissions |-> << >>],
    [requiredRoles |-> << >>, requiredPermissions |-> <<"document.delete">>],
    [requiredRoles |-> <<"admin">>, requiredPermissions |-> <<"document.delete">>] }

\* A hasRole that accepts any user with a roles array.
hasRoleIgnoringRole(u, role) == u # Absent /\ Value(u).roles # Absent

\* hasRole: user?.roles?.includes(role) || false
hasRole(u, role) ==
  u # Absent /\ Value(u).roles # Absent /\ role \in Value(Value(u).roles)

\* hasPermission: user?.permission?.includes(permission) || false
hasPermission(u, permission) ==
  /\ u # Absent
  /\ Value(u).permission # Absent
  /\ permission \in Value(Value(u).permission)

\* ProtectRouted: what the component returns.
ProtectRouted(props, token, u, isLoading_, error) ==
  IF isLoading_ THEN "skeleton"
  ELSE IF error # NULL THEN "auth_error_redirect"
  ELSE IF token = NULL THEN "redirect"
  ELSE IF /\ Len(props.requiredRoles) > 0
          /\ ~(\E i \in 1..Len(props.requiredRoles) : hasRole(u, props.requiredRoles[i]))
       THEN "access_denied_roles"
  ELSE IF /\ Len(props.requiredPermissions) > 0
          /\ ~(\E i \in 1..Len(props.requiredPermissions) :
                 hasPermission(u, props.requiredPermissions[i]))
       THEN "access_denied_permissions"
  ELSE "outlet"

\* What the ProtectedRoute element the URL matches returns for the provider's
\* current value.
View == ProtectRouted(aRoute, aToken, aUser, aLoading, aError)

\* The provider's effects after its first render.  A token parseJwt rejects
\* (or an expired one) makes the refresh effect call logout(); InitializeAuth
\* still sends GET /auth/me with it.  Without a token InitializeAuth only does
\* setLoading(false), which is also what its re-run after logout() does.
AuthMountEffects ==
  /\ ~aEffectsRun
  /\ aEffectsRun' = TRUE
  /\ CASE aToken = NULL ->
            /\ aLoading' = FALSE
            /\ UNCHANGED <<aToken, aMePending, aRefreshTimer>>
       [] aToken = BadToken ->
            /\ aToken' = NULL
            /\ aLoading' = FALSE
            /\ aMePending' = aMePending + 1
            /\ UNCHANGED aRefreshTimer
       [] OTHER ->
            /\ aMePending' = aMePending + 1
            /\ aRefreshTimer' = TRUE
            /\ UNCHANGED <<aToken, aLoading>>
  /\ UNCHANGED <<aUser, aError, aOp, aRefreshPending, aRoute>>

\* InitializeAuth: GET /auth/me resolved: setUser(userData), setLoading(false).
MeSucceeds(userData) ==
  /\ aMePending > 0
  /\ aMePending' = aMePending - 1
  /\ aUser' = Some(userData)
  /\ aLoading' = FALSE
  /\ UNCHANGED <<aToken, aError, aEffectsRun, aOp, aRefreshTimer,
                 aRefreshPending, aRoute>>

\* logout(): setToken(null), setUser(null), setError(null); the effects that
\* depend on the token re-run: the refresh timer is cleared, InitializeAuth
\* does setLoading(false).
LoggedOut ==
  /\ aToken' = NULL
  /\ aUser' = Absent
  /\ aError' = NULL
  /\ aRefreshTimer' = FALSE
  /\ aLoading' = FALSE

\* InitializeAuth: GET /auth/me threw: logout(), setLoading(false).
MeFails ==
  /\ aMePending > 0
  /\ aMePending' = aMePending - 1
  /\ LoggedOut
  /\ UNCHANGED <<aEffectsRun, aOp, aRefreshPending, aRoute>>

\* login / signup / requestPasswordReset / resetPassword up to the await:
\* setLoading(true), setError(null).
AuthRequestStarts(op) ==
  /\ aEffectsRun
  /\ aOp = "none"
  /\ aOp' = op
  /\ aLoading' = TRUE
  /\ aError' = NULL
  /\ UNCHANGED <<aToken, aUser, aEffectsRun, aMePending, aRefreshTimer,
                 aRefreshPending, aRoute>>

\* login resolved with accessToken and user: setToken, setUser, and in the
\* finally block setLoading(false).  A new token re-runs the token effects:
\* a refresh timer and a GET /auth/me.
LoginSucceeds(token, userData) ==
  /\ aOp = "login"
  /\ aOp' = "none"
  /\ aToken' = token
  /\ aUser' = Some(userData)
  /\ aLoading' = FALSE
  /\ aRefreshTimer' = TRUE
  /\ IF token # aToken
     THEN aMePending < MaxMeRequests /\ aMePending' = aMePending + 1
     ELSE UNCHANGED aMePending
  /\ UNCHANGED <<aError, aEffectsRun, aRefreshPending, aRoute>>

\* signup / requestPasswordReset / resetPassword resolved: setLoading(false).
OtherRequestSucceeds ==
  /\ aOp \in {"signup", "forgot", "reset"}
  /\ aOp' = "none"
  /\ aLoading' = FALSE
  /\ UNCHANGED <<aToken, aUser, aError, aEffectsRun, aMePending,
                 aRefreshTimer, aRefreshPending, aRoute>>

\* Any of them threw (or login's response lacked the token or the user):
\* setError(message), setLoading(false).  The message is never empty.
AuthRequestFails ==
  /\ aOp # "none"
  /\ aOp' = "none"
  /\ aError' = "message"
  /\ aLoading' = FALSE
  /\ UNCHANGED <<aToken, aUser, aEffectsRun, aMePending, aRefreshTimer,
                 aRefreshPending, aRoute>>

\* The auto-refresh timer fires: refreshToken() sends POST /auth/refresh.
RefreshTimerFires ==
  /\ aRefreshTimer
  /\ ~aRefreshPending
  /\ aRefreshTimer' = FALSE
  /\ aRefreshPending' = TRUE
  /\ UNCHANGED <<aToken, aUser, aLoading, aError, aEffectsRun, aMePending,
                 aOp, aRoute>>

\* refreshToken resolved: setToken(accessToken), setError(null); a new token
\* re-runs the token effects.
RefreshSucceeds(token) ==
  /\ aRefreshPending
  /\ aRefreshPending' = FALSE
  /\ aToken' = token
  /\ aError' = NULL
  /\ IF token # aToken
     THEN /\ aMePending < MaxMeRequests
          /\ aMePending' = aMePending + 1
          /\ aRefreshTimer' = TRUE
     ELSE UNCHANGED <<aMePending, aRefreshTimer>>
  /\ UNCHANGED <<aUser, aLoading, aEffectsRun, aOp, aRoute>>

\* refreshToken threw: setError("Session expired..."), then logout(), whose
\* setError(null) is the later update of the batch.
RefreshFails ==
  /\ aRefreshPending
  /\ aRefreshPending' = FALSE
  /\ LoggedOut
  /\ UNCHANGED <<aEffectsRun, aMePending, aOp, aRoute>>

\* The user logs out.
Logout ==
  /\ aEffectsRun
  /\ aToken # NULL
  /\ LoggedOut
  /\ UNCHANGED <<aEffectsRun, aMePending, aOp, aRefreshPending, aRoute>>

\* The URL changes to a path under another ProtectedRoute element.  logout is
\* useCallback(..., [navigate]); where the router hands out a new navigate for
\* the new location, both token effects re-run: with a token the refresh timer
\* is set again and GET /auth/me is sent again, without one InitializeAuth
\* does setLoading(false).
RouteChanges(props, effectsRerun) ==
  /\ aEffectsRun
  /\ props # aRoute
  /\ aRoute' = props
  /\ IF ~effectsRerun
     THEN UNCHANGED <<aLoading, aMePending, aRefreshTimer>>
     ELSE IF aToken = NULL
     THEN aLoading' = FALSE /\ UNCHANGED <<aMePending, aRefreshTimer>>
     ELSE /\ aMePending < MaxMeRequests
          /\ aMePending' = aMePending + 1
          /\ aRefreshTimer' = TRUE
          /\ UNCHANGED aLoading
  /\ UNCHANGED <<aToken, aUser, aError, aEffectsRun, aOp, aRefreshPending>>

\* The provider's first render: the token comes from localStorage.
InitAuth ==
  /\ aToken \in {NULL, "jwt1", BadToken}
  /\ aUser = Absent
  /\ aLoading = TRUE
  /\ aError = NULL
  /\ aEffectsRun = FALSE
  /\ aMePending = 0
  /\ aOp = "none"
  /\ aRefreshTimer = FALSE
  /\ aRefreshPending = FALSE
  /\ aRoute \in RouteProps
  /\ aView = View

\* The provider left alone.
IdleAuth ==
  /\ aToken = NULL
  /\ aUser = Absent
  /\ aLoading = TRUE
  /\ aError = NULL
  /\ aEffectsRun = FALSE
  /\ aMePending = 0
  /\ aOp = "none"
  /\ aRefreshTimer = FALSE
  /\ aRefreshPending = FALSE
  /\ aRoute = [requiredRoles |-> << >>, requiredPermissions |-> << >>]
  /\ aView = "skeleton"

(***************************************************************************)
(* Specifications                                                          *)
(***************************************************************************)
vars == <<pollVars, queueVars, reviewVars, authVars>>

\* A single pollProcessingStatus call, followed to its end.
OneResponse ==
  /\ \E r \in Responses : CheckStatusResponse(1, r)
  /\ UNCHANGED <<steps, queueVars, reviewVars, authVars>>
OneTimer == CheckStatusTimer(1) /\ UNCHANGED <<steps, queueVars, reviewVars, authVars>>
OneCleanup == Cleanup(1) /\ UNCHANGED <<steps, queueVars, reviewVars, authVars>>
OneNavigate == NavigateTimer(1) /\ UNCHANGED <<steps, queueVars, reviewVars, authVars>>

NextPoll ==
  \/ OneResponse
  \/ OneTimer
  \/ OneCleanup
  \/ OneNavigate

InitPoll == InitOnePoll /\ IdleQueue /\ IdleReview /\ IdleAuth

SpecPoll == InitPoll /\ [][NextPoll]_vars

\* Any interleaving of calls, responses, timers and cleanup calls.
Tick == steps < MaxSteps /\ steps' = steps + 1 /\ UNCHANGED <<queueVars, reviewVars, authVars>>
AnyCall == Tick /\ \E d \in DocumentIds, t \in TaskIds : PollProcessingStatus(d, t)
AnyResponse == Tick /\ \E i \in PollIds, r \in Responses : CheckStatusResponse(i, r)
AnyTimer == Tick /\ \E i \in PollIds : CheckStatusTimer(i)
AnyCleanup == Tick /\ \E i \in PollIds : Cleanup(i)
AnyNavigate == Tick /\ \E i \in PollIds : NavigateTimer(i)

NextDedup ==
  \/ AnyCall
  \/ AnyResponse
  \/ AnyTimer
  \/ AnyCleanup
  \/ AnyNavigate

InitDedup == InitRegistry /\ IdleQueue /\ IdleReview /\ IdleAuth

SpecDedup == InitDedup /\ [][NextDedup]_vars

\* One mounted ProcessingQueue.
QueueFetchSucceeds == (\E api \in ApiDocLists : FetchSucceeds(api)) /\ UNCHANGED <<pollVars, reviewVars, authVars>>
QueueFetchRateLimited == FetchRateLimited /\ UNCHANGED <<pollVars, reviewVars, authVars>>
QueueFetchFails == FetchFails /\ UNCHANGED <<pollVars, reviewVars, authVars>>
QueuePollTimerFires == PollTimerFires /\ UNCHANGED <<pollVars, reviewVars, authVars>>
QueueRefresh == Refresh /\ UNCHANGED <<pollVars, reviewVars, authVars>>
QueueCancelStart == (\E id \in QueueDocIds : CancelStart(id)) /\ UNCHANGED <<pollVars, reviewVars, authVars>>
QueueCancelSucceeds == (\E id \in QueueDocIds : CancelSucceeds(id)) /\ UNCHANGED <<pollVars, reviewVars, authVars>>
QueueCancelFails == (\E id \in QueueDocIds : CancelFails(id)) /\ UNCHANGED <<pollVars, reviewVars, authVars>>
QueueTokenChanges == (\E t \in Tokens \cup {NULL} : TokenChanges(t)) /\ UNCHANGED <<pollVars, reviewVars, authVars>>
QueueParentRerenders == ParentRerenders /\ UNCHANGED <<pollVars, reviewVars, authVars>>
QueueUnmount == Unmount /\ UNCHANGED <<pollVars, reviewVars, authVars>>

NextQueue ==
  \/ QueueFetchSucceeds
  \/ QueueFetchRateLimited
  \/ QueueFetchFails
  \/ QueuePollTimerFires
  \/ QueueRefresh
  \/ QueueCancelStart
  \/ QueueCancelSucceeds
  \/ QueueCancelFails
  \/ QueueTokenChanges
  \/ QueueParentRerenders
  \/ QueueUnmount

InitQueueSpec == InitRegistry /\ InitQueue /\ IdleReview /\ IdleAuth

SpecQueue == InitQueueSpec /\ [][NextQueue]_vars

\* One DocumentReview page.
ReviewBackendAdvances == BackendAdvances /\ UNCHANGED <<pollVars, queueVars, authVars>>
ReviewInitDocumentLoaded == InitDocumentLoaded /\ UNCHANGED <<pollVars, queueVars, authVars>>
ReviewInitDocumentFails == InitDocumentFails /\ UNCHANGED <<pollVars, queueVars, authVars>>
ReviewInitAnalysisSettles == InitAnalysisSettles /\ UNCHANGED <<pollVars, queueVars, authVars>>
ReviewStatusRequestFails ==
  /\ \E req \in BagToSet(rRequests) : StatusRequestFails(req)
  /\ UNCHANGED <<pollVars, queueVars, authVars>>
ReviewStatusFetched ==
  /\ \E req \in BagToSet(rRequests) : StatusFetched(req)
  /\ PendingWork' <= MaxPending
  /\ UNCHANGED <<pollVars, queueVars, authVars>>
ReviewStatusPolled ==
  /\ \E req \in BagToSet(rRequests) : StatusPolled(req)
  /\ pollCount' <= MaxPollCount
  /\ PendingWork' <= MaxPending
  /\ UNCHANGED <<pollVars, queueVars, authVars>>
ReviewRefTimerFires == RefTimerFires /\ UNCHANGED <<pollVars, queueVars, authVars>>
ReviewOrphanTimerFires ==
  /\ \E pc \in BagToSet(rOrphans) : OrphanTimerFires(pc)
  /\ UNCHANGED <<pollVars, queueVars, authVars>>
ReviewAnalysisRefetched ==
  /\ \E ok \in BOOLEAN : AnalysisRefetched(ok)
  /\ PendingWork' <= MaxPending
  /\ UNCHANGED <<pollVars, queueVars, authVars>>
ReviewDocumentRefetched ==
  /\ DocumentRefetched
  /\ PendingWork' <= MaxPending
  /\ UNCHANGED <<pollVars, queueVars, authVars>>
ReviewDocumentRefetchFails == DocumentRefetchFails /\ UNCHANGED <<pollVars, queueVars, authVars>>
ReviewUnmount == ReviewUnmounts /\ UNCHANGED <<pollVars, queueVars, authVars>>

NextReview ==
  \/ ReviewBackendAdvances
  \/ ReviewInitDocumentLoaded
  \/ ReviewInitDocumentFails
  \/ ReviewInitAnalysisSettles
  \/ ReviewStatusRequestFails
  \/ ReviewStatusFetched
  \/ ReviewStatusPolled
  \/ ReviewRefTimerFires
  \/ ReviewOrphanTimerFires
  \/ ReviewAnalysisRefetched
  \/ ReviewDocumentRefetched
  \/ ReviewDocumentRefetchFails
  \/ ReviewUnmount

InitReviewSpec == InitRegistry /\ IdleQueue /\ InitReview /\ IdleAuth

SpecReview == InitReviewSpec /\ [][NextReview]_vars

\* One DocumentReview page on a document the backend never finishes.
InitStuckReview == InitReview /\ isProcessing(backend)
StuckInitDocumentLoaded == InitDocumentLoaded /\ UNCHANGED <<pollVars, queueVars, authVars>>
StuckInitDocumentFails == InitDocumentFails /\ UNCHANGED <<pollVars, queueVars, authVars>>
StuckStatusRequestFails ==
  /\ \E req \in BagToSet(rRequests) : StatusRequestFails(req)
  /\ UNCHANGED <<pollVars, queueVars, authVars>>
StuckStatusFetched ==
  /\ \E req \in BagToSet(rRequests) : StatusFetched(req)
  /\ PendingWork' <= MaxStuckPending
  /\ UNCHANGED <<pollVars, queueVars, authVars>>
StuckStatusPolled ==
  /\ \E req \in BagToSet(rRequests) : StatusPolled(req)
  /\ pollCount' <= MaxStuckPollCount
  /\ PendingWork' <= MaxStuckPending
  /\ UNCHANGED <<pollVars, queueVars, authVars>>
StuckRefTimerFires == RefTimerFires /\ UNCHANGED <<pollVars, queueVars, authVars>>
StuckOrphanTimerFires ==
  /\ \E pc \in BagToSet(rOrphans) : OrphanTimerFires(pc)
  /\ UNCHANGED <<pollVars, queueVars, authVars>>

NextStuck ==
  \/ StuckInitDocumentLoaded
  \/ StuckInitDocumentFails
  \/ StuckStatusRequestFails
  \/ StuckStatusFetched
  \/ StuckStatusPolled
  \/ StuckRefTimerFires
  \/ StuckOrphanTimerFires

InitStuckSpec == InitRegistry /\ IdleQueue /\ InitStuckReview /\ IdleAuth

SpecStuck == InitStuckSpec /\ [][NextStuck]_vars

\* The AuthProvider and the ProtectedRoute the URL matches; every step ends
\* with that ProtectedRoute rendered again.
Rendered == aView' = View' /\ UNCHANGED <<pollVars, queueVars, reviewVars>>
AuthMount == AuthMountEffects /\ Rendered
AuthMeSucceeds == (\E u \in UserShapes : MeSucceeds(u)) /\ Rendered
AuthMeFails == MeFails /\ Rendered
AuthRequestStart ==
  /\ \E op \in {"login", "signup", "forgot", "reset"} : AuthRequestStarts(op)
  /\ Rendered
AuthLoginSucceeds ==
  /\ \E t \in ValidTokens, u \in UserShapes : LoginSucceeds(t, u)
  /\ Rendered
AuthOtherRequestSucceeds == OtherRequestSucceeds /\ Rendered
AuthRequestFailed == AuthRequestFails /\ Rendered
AuthRefreshTimerFires == RefreshTimerFires /\ Rendered
AuthRefreshSucceeds == (\E t \in ValidTokens : RefreshSucceeds(t)) /\ Rendered
AuthRefreshFails == RefreshFails /\ Rendered
AuthLogout == Logout /\ Rendered
AuthRouteChanges ==
  /\ \E props \in RouteProps, effectsRerun \in BOOLEAN :
       RouteChanges(props, effectsRerun)
  /\ Rendered

NextAuth ==
  \/ AuthMount
  \/ AuthMeSucceeds
  \/ AuthMeFails
  \/ AuthRequestStart
  \/ AuthLoginSucceeds
  \/ AuthOtherRequestSucceeds
  \/ AuthRequestFailed
  \/ AuthRefreshTimerFires
  \/ AuthRefreshSucceeds
  \/ AuthRefreshFails
  \/ AuthLogout
  \/ AuthRouteChanges

InitAuthSpec == InitRegistry /\ IdleQueue /\ IdleReview /\ InitAuth

SpecAuth == InitAuthSpec /\ [][NextAuth]_vars

(***************************************************************************)
(* Properties of hooks/useProcessingPoller.ts                              *)
(***************************************************************************)
Active(i) == polls[i].phase \in {"inflight", "timer"}

LoopsOf(k) == {i \in PollIds : polls[i].key = k /\ Active(i)}

Keys == {PollKey(d, t) : d \in DocumentIds, t \in TaskIds}

\* The 1.5 factor never yields a fraction: whenever a retry after an error is
\* still allowed, the delay it multiplies is even.
DelayExact ==
  \A i \in PollIds :
    (polls[i].phase = "inflight" /\ MayRetryError(polls[i].attempts))
      => polls[i].currentDelay % 2 = 0

\* C1: at most one polling loop (an in-flight status request or a pending retry
\* timer) is active per documentId-taskId pair, in every reachable state.
C1_AtMostOneLoopPerKey ==
  \A k \in Keys : Cardinality(LoopsOf(k)) <= 1

\* C2: the delay handed to setTimeout(checkStatus, ...) is within
\* [5000, 30000]; a 429 response doubles the delay up to 30000, and a
\* still-processing response that schedules the next request resets it to 5000.
C2_DelayWithinBounds ==
  [][\A i \in PollIds :
       LET p == polls[i]
           q == polls'[i]
       IN /\ (p.phase = "inflight" /\ q.phase = "timer") =>
               /\ q.timerDelay >= 5000
               /\ q.timerDelay <= 30000
               /\ q.timerDelay = q.currentDelay
               /\ (q.lastResp = "processing" => q.timerDelay = 5000)
          /\ (p.phase = "inflight" /\ q.phase # "inflight" /\ q.lastResp = "http429") =>
               q.currentDelay = (IF 2 * p.currentDelay > 30000 THEN 30000
                                 ELSE 2 * p.currentDelay)
    ]_vars

\* C2 witness: three 429 responses in a row have driven the delay to the cap
\* and the retry timer is pending with it.
C2_Witness ==
  /\ polls[1].phase = "timer"
  /\ polls[1].lastResp = "http429"
  /\ polls[1].timerDelay = 30000
  /\ polls[1].attempts >= 3

\* C5: once the returned cleanup function has been called, the poll issues no
\* status request and calls none of setProcessingStatus, setUploadResult,
\* navigate.
C5_NothingAfterCleanup ==
  \A i \in PollIds : polls[i].cancelled => polls[i].late = {}

\* C6: one pollProcessingStatus call issues at most maxAttempts = 60 status
\* requests.
C6_AtMostSixtyRequests ==
  \A i \in PollIds : polls[i].requests <= 60

\* C7: when polling has stopped without being cancelled, setUploadResult has
\* delivered a final result (never still "processing") and the key has left
\* activePolls.
C7_FinalResultWhenStopped ==
  \A i \in PollIds :
    (polls[i].phase = "stopped" /\ ~polls[i].cancelled) =>
      /\ polls[i].uploadResult \in {"success", "error_failed", "error_timeout", "error_unable"}
      /\ polls[i].key \notin activePolls

\* C10: the poll gives up with "Unable to check processing status" only after
\* 3 requests have failed with an error other than 429, however many
\* successful polls came before.
C10_GiveUpAfterThreeErrors ==
  \A i \in PollIds :
    polls[i].uploadResult = "error_unable" => polls[i].otherErrors >= 3

(***************************************************************************)
(* Properties of components/processing-queue/ProcessingQueue.tsx           *)
(***************************************************************************)
FetchSettles == qInFlight' < qInFlight

\* C3: pollDelay starts at 10000 and stays within [10000, 300000]; a fetch that
\* fails with HTTP 429 doubles it up to 300000, a successful fetch resets it to
\* 10000, any other failure (and any other step) leaves it unchanged.
C3_PollDelayWithinBounds ==
  /\ pollDelay = 10000
  /\ [][/\ pollDelay' >= 10000
        /\ pollDelay' <= 300000
        /\ (qMounted /\ FetchSettles /\ qLast' = "http429") =>
             pollDelay' = (IF 2 * pollDelay > 300000 THEN 300000 ELSE 2 * pollDelay)
        /\ (qMounted /\ FetchSettles /\ qLast' = "success") => pollDelay' = 10000
        /\ (qMounted /\ FetchSettles /\ qLast' = "error") => pollDelay' = pollDelay
        /\ ~FetchSettles => pollDelay' = pollDelay
       ]_vars

\* C3 witness: repeated 429 answers have driven pollDelay to the cap.
C3_Witness ==
  /\ qMounted
  /\ qLast = "http429"
  /\ pollDelay = 300000

\* C4: while the queue is mounted with a token and lists an active document,
\* auto-refresh is alive after every refresh outcome: a refresh request is in
\* flight or a refresh timer is pending.
C4_RefreshKeepsGoing ==
  (qMounted /\ qToken # NULL /\ hasActiveDocs(documents) /\ qInFlight = 0)
    => qTimers > 0

\* C14: at most one auto-refresh timer is pending at any time; none is pending
\* while no listed document is Processing or Uploaded; none is pending once
\* the component has unmounted.
C14_AtMostOneRefreshTimer ==
  /\ qTimers <= 1
  /\ ~hasActiveDocs(documents) => qTimers = 0
  /\ ~qMounted => qTimers = 0

\* C14 witness: the polling effect has re-run after a 429 changed pollDelay,
\* its timer is pending, and a further refresh is in flight whose outcome
\* re-runs the effect over that pending timer.
C14_Witness ==
  /\ qMounted
  /\ hasActiveDocs(documents)
  /\ pollDelay > QueueInitialDelay
  /\ pollTimer = "pending"
  /\ qTimers = 1
  /\ qInFlight > 0

(***************************************************************************)
(* Properties of pages/DocumentReview.tsx and useProcessingStatus          *)
(***************************************************************************)
\* C8: a page that shows a pending or processing document gets to see the
\* backend's "completed": while it is mounted and still in the processing
\* state and the backend has completed, a status request, a poll timer or an
\* onComplete refetch is outstanding, whatever the earlier requests returned.
C8_CompletionIsNoticed ==
  (rMounted /\ isProcessing(documentData) /\ backend = "completed")
    => PendingWork > 0

\* Poll requests in flight that the closure with captured pollCount pc sent.
PollsInFlight(reqs, pc) == CopiesIn(PollRequest(pc), reqs)

TimersPending == RefTimerPending + BagCardinality(rOrphans)

\* C11: polling stops once pollCount exceeds 60: from then on no step sends a
\* status request of the polling loop and no step arms a poll timer, so for a
\* document that stays pending/processing the requests are bounded and no
\* timer stays pending.
C11_StopsAfterLimit ==
  [][pollCount > PollLimit =>
       /\ \A pc \in 0..MaxStuckPollCount :
            PollsInFlight(rRequests', pc) <= PollsInFlight(rRequests, pc)
       /\ TimersPending' <= TimersPending]_vars

\* C12: at most one poll timer is pending at any time, and it is the one
\* timeoutRef names: no pending timer has had its id overwritten in the ref.
C12_OneTimerInRef ==
  TimersPending <= 1 /\ rOrphans = EmptyBag

\* C13: once the page has unmounted, every poll timer the hook created has
\* been cleared and the polling loop sends no further status request: no
\* timer is pending, and no step puts a poll request in flight.
C13_NothingAfterUnmount ==
  [][~rMounted =>
       /\ TimersPending' = 0
       /\ \A pc \in 0..MaxPollCount :
            PollsInFlight(rRequests', pc) <= PollsInFlight(rRequests, pc)]_vars

(***************************************************************************)
(* Properties of ProtectedRoute                                            *)
(***************************************************************************)
Elements(seq) == {seq[i] : i \in 1..Len(seq)}

HoldsOneOf(held, required) ==
  held # Absent /\ Value(held) \cap Elements(required) # {}

\* C9: the protected content (Outlet) is rendered exactly in the states where
\* auth is not loading, the auth error is null, a token is present, the user
\* holds one of requiredRoles when that list is non-empty, and one of
\* requiredPermissions when that list is non-empty.
C9_OutletOnlyWhenAuthorized ==
  (aView = "outlet") <=>
    /\ ~aLoading
    /\ aError = NULL
    /\ aToken # NULL
    /\ (aRoute.requiredRoles # << >> =>
          aUser # Absent /\ HoldsOneOf(Value(aUser).roles, aRoute.requiredRoles))
    /\ (aRoute.requiredPermissions # << >> =>
          aUser # Absent /\ HoldsOneOf(Value(aUser).permission, aRoute.requiredPermissions))

\* C9 witness: a role-restricted and permission-restricted route renders its
\* content for a logged-in user who holds one of the roles and the permission.
C9_Witness ==
  /\ aView = "outlet"
  /\ aRoute.requiredRoles # << >>
  /\ aRoute.requiredPermissions # << >>
  /\ aToken # NULL
  /\ aUser # Absent

====
